---- MODULE Spec2Model ----
(***************************************************************************)
(* Model of the bridge metaprotocol processor of the asteroid-protocol     *)
(* indexer (NewBridgeProcessor and Bridge.Process) over the relational     *)
(* schema it reads and writes.  Strings are sequences of one-character     *)
(* strings so that trimming, upper-casing, number parsing and the          *)
(* attestation's concatenation are computed the way the code computes them.*)
(***************************************************************************)
EXTENDS Integers, Sequences, FiniteSets, TLC

VARIABLES
    proc,                   \* the *Bridge value and the environment it was built from
    token,                  \* public.token rows, by id
    token_holder,           \* public.token_holder rows, by <<token_id, address>>
    token_address_history,  \* public.token_address_history rows, in insertion order
    bridge_history,         \* public.bridge_history rows, in insertion order
    bridge_remote_chain,    \* public.bridge_remote_chain rows, in id order
    bridge_token,           \* public.bridge_token rows, in id order
    marketplace_listing,    \* public.marketplace_listing rows, in id order
    marketplace_cft20_detail, \* public.marketplace_cft20_detail rows, in id order
    marketplace_listing_history, \* public.marketplace_listing_history rows, in insertion order
    inscription_history,    \* public.inscription_history rows, in insertion order
    inscription,            \* public.inscription rows, in id order
    marketplace_inscription_detail, \* public.marketplace_inscription_detail rows, in id order
    status,                 \* the public.status row of the chain
    transaction,            \* public.transaction rows, in id order
    last                    \* the most recent Process call: its arguments, steps and result

vars == <<proc, token, token_holder, token_address_history, bridge_history,
          bridge_remote_chain, bridge_token, marketplace_listing,
          marketplace_cft20_detail, marketplace_listing_history,
          inscription_history, inscription, marketplace_inscription_detail,
          status, transaction, last>>

db == <<token, token_holder, token_address_history, bridge_history,
        bridge_remote_chain, bridge_token, marketplace_listing,
        marketplace_cft20_detail, marketplace_listing_history,
        inscription_history, inscription, marketplace_inscription_detail, status>>

(***************************************************************************)
(* Bounds                                                                  *)
(***************************************************************************)
\* number of transactions the indexer hands to Process
MaxTx == 2
\* number of rows the history tables and bridge_remote_chain hold together
MaxRows == 8
\* number of blocks the indexer loop finishes
MaxBlocks == 3

(***************************************************************************)
(* Strings                                                                 *)
(***************************************************************************)
Digits == <<"0", "1", "2", "3", "4", "5", "6", "7", "8", "9">>

IsDigit(c) == \E i \in 1..10 : Digits[i] = c

DigitVal(c) == (CHOOSE i \in 1..10 : Digits[i] = c) - 1

Lower == <<"a", "b", "k", "t", "z">>
Upper == <<"A", "B", "K", "T", "Z">>

\* unicode.ToUpper on one character
UpperChar(c) ==
    IF \E i \in 1..Len(Lower) : Lower[i] = c
    THEN Upper[CHOOSE i \in 1..Len(Lower) : Lower[i] = c]
    ELSE c

\* strings.ToUpper
ToUpper(s) == [i \in 1..Len(s) |-> UpperChar(s[i])]

RECURSIVE TrimLeft(_)
TrimLeft(s) == IF s # <<>> /\ Head(s) = " " THEN TrimLeft(Tail(s)) ELSE s

RECURSIVE TrimRight(_)
TrimRight(s) ==
    IF s # <<>> /\ s[Len(s)] = " " THEN TrimRight(SubSeq(s, 1, Len(s) - 1)) ELSE s

\* strings.TrimSpace
TrimSpace(s) == TrimRight(TrimLeft(s))

RECURSIVE DigitsValue(_)
\* the number a run of decimal digits denotes
DigitsValue(s) ==
    IF s = <<>> THEN 0 ELSE 10 * DigitsValue(SubSeq(s, 1, Len(s) - 1)) + DigitVal(s[Len(s)])

RECURSIVE Pow10(_)
Pow10(n) == IF n = 0 THEN 1 ELSE 10 * Pow10(n - 1)

AllDigits(s) == \A i \in 1..Len(s) : IsDigit(s[i])

\* "nan" in any letter case, which strconv.ParseFloat reads as NaN
IsNaN(s) ==
    /\ Len(s) = 3
    /\ s[1] \in {"n", "N"} /\ s[2] \in {"a", "A"} /\ s[3] \in {"n", "N"}

\* strconv.ParseFloat(s, 64) on decimal literals [+-]digits[.digits], whose
\* value is sign * num / den, and on NaN; anything else is a syntax error.
ParseFloat(s) ==
    LET signed == s # <<>> /\ Head(s) \in {"+", "-"}
        neg    == s # <<>> /\ Head(s) = "-"
        body   == IF signed THEN Tail(s) ELSE s
        dots   == {i \in 1..Len(body) : body[i] = "."}
        ip     == IF dots = {} THEN body
                  ELSE SubSeq(body, 1, (CHOOSE i \in dots : TRUE) - 1)
        fp     == IF dots = {} THEN <<>>
                  ELSE SubSeq(body, (CHOOSE i \in dots : TRUE) + 1, Len(body))
        ok     == /\ Cardinality(dots) <= 1
                  /\ AllDigits(ip) /\ AllDigits(fp)
                  /\ Len(ip) + Len(fp) > 0
    IN  IF IsNaN(s)
        THEN [err |-> FALSE, nan |-> TRUE, neg |-> FALSE, num |-> 0, den |-> 1]
        ELSE IF ok
        THEN [err |-> FALSE, nan |-> FALSE, neg |-> neg,
              num |-> DigitsValue(ip \o fp), den |-> Pow10(Len(fp))]
        ELSE [err |-> TRUE, nan |-> FALSE, neg |-> FALSE, num |-> 0, den |-> 1]

\* amount <= 0, which is false of NaN
NotPositive(a) == ~a.nan /\ (a.num = 0 \/ a.neg)

\* uint64(NaN) is implementation-dependent: the builds give 0 or 1 << 63.
\* 2^30 stands for 1 << 63: both exceed every balance.
NaNConversions == {0, 2^30}

\* uint64(amount) for a positive float64: truncation toward zero
Uint64(a) == IF a.nan THEN proc.env.nan ELSE a.num \div a.den

\* uint64(math.Round(amount)) for a positive float64: half away from zero;
\* math.Round(NaN) is NaN
Uint64Round(a) == IF a.nan THEN proc.env.nan ELSE (2 * a.num + a.den) \div (2 * a.den)

\* strconv.FormatUint(n, 10): the decimal rendering of a stored amount
RECURSIVE FormatUint(_)
FormatUint(n) ==
    IF n < 10 THEN <<Digits[n + 1]>> ELSE FormatUint(n \div 10) \o <<Digits[(n % 10) + 1]>>

(***************************************************************************)
(* Key material and the signature primitives                               *)
(***************************************************************************)
\* what an environment variable can hold: nothing, text that is not base64,
\* base64 of bytes that are not the expected DER, a DER key of another
\* algorithm, or the Ed25519 key of key pair 1 or 2
EnvAbsent == [form |-> "absent", pair |-> 0]
EnvNotB64 == [form |-> "notb64", pair |-> 0]
EnvNotDer == [form |-> "notder", pair |-> 0]
EnvRsa    == [form |-> "rsa", pair |-> 0]
EnvEd(n)  == [form |-> "ed25519", pair |-> n]

PrivateKeyValues == {EnvAbsent, EnvNotB64, EnvNotDer, EnvRsa, EnvEd(1)}
PublicKeyValues  == {EnvAbsent, EnvNotB64, EnvNotDer, EnvRsa, EnvEd(1), EnvEd(2)}

NoKey == [form |-> "none", pair |-> 0]

\* ed25519.Sign: only the holder of the private key of a pair produces the
\* pair's signature over a message
Sign(privKey, message) == [signer |-> privKey.pair, msg |-> message]

\* ed25519.Verify
Verify(pubKey, message, sig) == sig.signer = pubKey.pair /\ sig.msg = message

\* b64.StdEncoding.EncodeToString / DecodeString on a signature
B64Encode(bytes) == [b64 |-> bytes]
B64Decode(text) == text.b64

(***************************************************************************)
(* NewBridgeProcessor                                                      *)
(***************************************************************************)
LocalChain == <<"c", "1">>
OtherChain == <<"c", "2">>

NewBridgeProcessorLenient(chainID, env) ==
    LET dead(how) == [state |-> how, chainID |-> chainID, env |-> env,
                      privKey |-> NoKey, pubKey |-> NoKey]
    IN  IF env.priv.form = "absent" \/ env.pub.form = "absent" THEN dead("fatal")
        ELSE IF env.priv.form = "notb64" THEN dead("fatal")
        ELSE IF env.pub.form = "notb64" THEN dead("fatal")
        ELSE IF env.priv.form = "notder" THEN dead("fatal")
        ELSE IF env.priv.form # "ed25519" THEN dead("panic")
        ELSE [state |-> "running", chainID |-> chainID, env |-> env,
              privKey |-> env.priv,
              pubKey |-> IF env.pub.form = "ed25519" THEN env.pub ELSE NoKey]

\* the outcome of NewBridgeProcessor(chainID, db) under the environment env
NewBridgeProcessor(chainID, env) ==
    LET dead(how) == [state |-> how, chainID |-> chainID, env |-> env,
                      privKey |-> NoKey, pubKey |-> NoKey]
    IN  IF env.priv.form = "absent" \/ env.pub.form = "absent" THEN dead("fatal")
        ELSE IF env.priv.form = "notb64" THEN dead("fatal")
        ELSE IF env.pub.form = "notb64" THEN dead("fatal")
        ELSE IF env.priv.form = "notder" THEN dead("fatal")
        ELSE IF env.pub.form = "notder" THEN dead("fatal")
        ELSE IF env.priv.form # "ed25519" \/ env.pub.form # "ed25519" THEN dead("panic")
        ELSE [state |-> "running", chainID |-> chainID, env |-> env,
              privKey |-> env.priv, pubKey |-> env.pub]

(***************************************************************************)
(* Initial database                                                        *)
(***************************************************************************)
TK == <<"T", "K">>
AB == <<"A", "B">>

InitToken ==
    <<[id |-> 1, chain_id |-> LocalChain, ticker |-> TK, max_supply |-> 10,
       circulating_supply |-> 6],
      [id |-> 2, chain_id |-> LocalChain, ticker |-> AB, max_supply |-> 4,
       circulating_supply |-> 2]>>

InitTokenHolder ==
    (<<1, "A">> :> 3) @@ (<<1, "B">> :> 2) @@ (<<2, "A">> :> 2)

\* listing 1 sells 1 TK of B, listing 2 sells inscription 1 of A
InitMarketplaceListing ==
    <<[id |-> 1, seller_address |-> "B", transaction_id |-> 90, deposit_timeout |-> 1,
       depositor_address |-> "", depositor_timedout_block |-> 0,
       is_deposited |-> FALSE, is_filled |-> FALSE, is_cancelled |-> FALSE],
      [id |-> 2, seller_address |-> "A", transaction_id |-> 91, deposit_timeout |-> 1,
       depositor_address |-> "", depositor_timedout_block |-> 0,
       is_deposited |-> FALSE, is_filled |-> FALSE, is_cancelled |-> FALSE]>>

InitMarketplaceListingHistory ==
    <<[listing_id |-> 1, transaction_id |-> 90, sender_address |-> "B", action |-> "list"]>>

InitInscriptionHistory ==
    <<[inscription_id |-> 1, transaction_id |-> 80, sender |-> "A", receiver |-> "A",
       action |-> "inscribe"],
      [inscription_id |-> 1, transaction_id |-> 91, sender |-> "A", receiver |-> "A",
       action |-> "list"]>>

InitInscription == <<[id |-> 1, transaction_id |-> 80, current_owner |-> "A"]>>

InitMarketplaceInscriptionDetail == <<[id |-> 1, listing_id |-> 2, inscription_id |-> 1]>>

InitStatus == [chain_id |-> LocalChain, last_processed_height |-> 100]

InitMarketplaceCft20Detail ==
    <<[id |-> 1, listing_id |-> 1, token_id |-> 1, amount |-> 1]>>

InitBridgeRemoteChain ==
    <<[id |-> 1, chain_id |-> LocalChain, remote_chain_id |-> <<"o", "1">>,
       remote_contract |-> <<"k", "a">>],
      [id |-> 2, chain_id |-> LocalChain, remote_chain_id |-> <<"o", "2">>,
       remote_contract |-> <<"k", "a">>]>>

InitBridgeToken ==
    <<[id |-> 1, remote_chain_id |-> 1, token_id |-> 1, enabled |-> TRUE],
      [id |-> 2, remote_chain_id |-> 1, token_id |-> 2, enabled |-> FALSE]>>

\* a send the initial database accepts
Reference ==
    [parse |-> "ok", chain |-> LocalChain, op |-> "send", tic |-> TK,
     amt |-> <<"1">>, rch |-> <<"o", "1">>, rco |-> <<"k", "a">>,
     dst |-> <<"r", "x">>, sender |-> "A"]

NoCall ==
    [called |-> FALSE, tx |-> [id |-> 0, hash |-> <<>>, height |-> 0],
     call |-> Reference, fail |-> "none", ret |-> "nil", events |-> <<>>,
     reads |-> <<>>, redelivered |-> FALSE,
     attestation |-> <<>>, signature |-> [b64 |-> [signer |-> 0, msg |-> <<>>]]]

Init ==
    /\ proc = [state |-> "unstarted", chainID |-> LocalChain,
               env |-> [priv |-> EnvAbsent, pub |-> EnvAbsent, nan |-> 0],
               privKey |-> NoKey, pubKey |-> NoKey]
    /\ token = InitToken
    /\ token_holder = InitTokenHolder
    /\ token_address_history = <<>>
    /\ bridge_history = <<>>
    /\ bridge_remote_chain = InitBridgeRemoteChain
    /\ bridge_token = InitBridgeToken
    /\ marketplace_listing = InitMarketplaceListing
    /\ marketplace_cft20_detail = InitMarketplaceCft20Detail
    /\ marketplace_listing_history = InitMarketplaceListingHistory
    /\ inscription_history = InitInscriptionHistory
    /\ inscription = InitInscription
    /\ marketplace_inscription_detail = InitMarketplaceInscriptionDetail
    /\ status = InitStatus
    /\ transaction = <<>>
    /\ last = NoCall

\* main: the processor is built once, from the process environment.  No call
\* of Calls carries NaN, so the build's conversion of NaN is left at 0 here.
Start ==
    /\ proc.state = "unstarted"
    /\ \E priv \in PrivateKeyValues, pub \in PublicKeyValues :
          proc' = NewBridgeProcessor(LocalChain, [priv |-> priv, pub |-> pub, nan |-> 0])
    /\ UNCHANGED <<db, transaction, last>>

\* main under valid keys, on either kind of build
StartBuild ==
    /\ proc.state = "unstarted"
    /\ \E nan \in NaNConversions :
          proc' = NewBridgeProcessor(LocalChain,
                                     [priv |-> EnvEd(1), pub |-> EnvEd(1), nan |-> nan])
    /\ UNCHANGED <<db, transaction, last>>

(***************************************************************************)
(* Inputs of Process                                                       *)
(***************************************************************************)
Missing == <<"?">>      \* marks a key the URN does not carry

\* for each field of the reference send, the other values a call may carry
Alternatives ==
    [parse  |-> {"malformed"},
     chain  |-> {OtherChain},
     op     |-> {"burn"},
     tic    |-> {<<" ", "t", "k", " ">>, AB, <<"Z", "Z">>},
     amt    |-> {<<"3">>, <<"4">>, <<"1", ".", "5">>, <<"3", ".", "5">>,
                 <<"0", ".", "5">>, <<"0">>, <<"-", "1">>, <<"x">>, Missing},
     rch    |-> {<<"o", "2">>, <<"n", "9">>},
     rco    |-> {<<"k", "b">>},
     dst    |-> {<<" ", "r", "y">>, Missing},
     sender |-> {"B", "C", "unknown"}]

Fields == DOMAIN Reference

\* the reference send with one field replaced
OneFieldCalls ==
    UNION {{[Reference EXCEPT ![f] = v] : v \in Alternatives[f]} : f \in Fields}

\* sends that differ from the reference send in several fields
CombinedCalls ==
    {[Reference EXCEPT !.sender = "B", !.amt = <<"3">>],
     [Reference EXCEPT !.sender = "B", !.amt = <<"2", ".", "0">>],
     [Reference EXCEPT !.tic = <<" ", "t", "k", " ">>, !.amt = <<" ", "1", ".", "5">>,
                       !.dst = <<" ", "r", "y">>]}

Calls == {Reference} \cup OneFieldCalls \cup CombinedCalls

ParamKeys == {"tic", "amt", "rch", "rco", "dst"}

\* the URN record ParseProtocolString hands back for a call
ParsedURN(c) ==
    [ChainID |-> c.chain, Operation |-> c.op,
     KeyValuePairs |-> [k \in {k \in ParamKeys : c[k] # Missing} |-> c[k]]]

\* parsedURN.KeyValuePairs[k]: a Go map yields "" for an absent key
KV(urn, k) == IF k \in DOMAIN urn.KeyValuePairs THEN urn.KeyValuePairs[k] ELSE <<>>

\* the Save calls of one Process call that the store may fail
Failures == {"none", "token_holder", "token_address_history", "bridge_history"}

(***************************************************************************)
(* Bridge.Process                                                          *)
(***************************************************************************)
NotFound == [id |-> 0]

\* db.Where(...).First(&model): of the rows the condition matches, the one
\* with the lowest primary key
First(rows, matching) ==
    IF matching = {} THEN NotFound
    ELSE rows[CHOOSE i \in matching : \A j \in matching : i <= j]

RemoteContractUnchecked(remoteChainModel, remoteContract) == FALSE

\* remoteChainModel.RemoteContract != remoteContract
RemoteContractMismatch(remoteChainModel, remoteContract) ==
    remoteChainModel.remote_contract # remoteContract

BridgeTokenMissing(bridgeTokenModel) == bridgeTokenModel = NotFound

\* result.Error != nil || !bridgeTokenModel.Enabled
BridgeTokenDisabled(bridgeTokenModel) ==
    bridgeTokenModel = NotFound \/ ~bridgeTokenModel.enabled

ChainUnchecked(urnChainID, chainID) == FALSE

\* parsedURN.ChainID != protocol.chainID
ChainMismatch(urnChainID, chainID) == urnChainID # chainID

TickerTrimmedOnly(tic) == TrimSpace(tic)

\* ticker := strings.ToUpper(strings.TrimSpace(tic))
NormalizeTicker(tic) == ToUpper(TrimSpace(tic))

DebitEveryHolder(holder, key, amount) ==
    [k \in DOMAIN holder |->
        IF k[1] = key[1] /\ holder[k] >= amount THEN holder[k] - amount ELSE holder[k]]

\* holderModel.Amount = holderModel.Amount - uint64(amount); Save(&holderModel)
Debit(holder, key, amount) == [holder EXCEPT ![key] = @ - amount]

\* holderModel.Amount < uint64(amount)
InsufficientBalance(holderAmount, amount) == holderAmount < Uint64(amount)

AttestationContractFirst(chainID, hash, ticker, amountString, remoteChainId, remoteContract, receiverAddress) ==
    chainID \o hash \o ticker \o amountString \o remoteContract \o remoteChainId \o receiverAddress

AttestationWithoutHash(chainID, hash, ticker, amountString, remoteChainId, remoteContract, receiverAddress) ==
    chainID \o ticker \o amountString \o remoteChainId \o remoteContract \o receiverAddress

\* the byte string handed to ed25519.Sign
Attestation(chainID, hash, ticker, amountString, remoteChainId, remoteContract, receiverAddress) ==
    chainID \o hash \o ticker \o amountString \o remoteChainId \o remoteContract \o receiverAddress

SendStepsSignEarly == <<"token_holder", "sign", "token_address_history", "bridge_history">>

\* the statement blocks of a send after its checks, in program order
SendSteps == <<"token_holder", "token_address_history", "sign", "bridge_history">>

\* one statement block: st is what the call has done so far
RunStep(step, ctx, st) ==
    CASE step = "token_holder" ->
           IF ctx.fail = "token_holder"
           THEN [st EXCEPT !.ret = "unable to update seller's balance",
                           !.events = Append(@, "token_holder save failed")]
           ELSE [st EXCEPT !.holder = Debit(@, ctx.holderKey, Uint64(ctx.amount)),
                           !.events = Append(@, "token_holder saved")]
      [] step = "token_address_history" ->
           IF ctx.fail = "token_address_history"
           THEN [st EXCEPT !.ret = "token_address_history save failed",
                           !.events = Append(@, "token_address_history save failed")]
           ELSE [st EXCEPT !.tah = Append(@,
                               [chain_id |-> ctx.urn.ChainID, height |-> ctx.tx.height,
                                transaction_id |-> ctx.tx.id, token_id |-> ctx.tokenModel.id,
                                sender |-> ctx.sender, receiver |-> "bridge",
                                action |-> "bridge", amount |-> Uint64Round(ctx.amount)]),
                           !.events = Append(@, "token_address_history saved")]
      [] step = "sign" ->
           [st EXCEPT !.attestation =
                          Attestation(ctx.urn.ChainID, ctx.tx.hash, ctx.tokenModel.ticker,
                                      ctx.amountString, ctx.remoteChainId,
                                      ctx.remoteContract, ctx.receiverAddress),
                      !.signature =
                          B64Encode(Sign(proc.privKey,
                              Attestation(ctx.urn.ChainID, ctx.tx.hash, ctx.tokenModel.ticker,
                                          ctx.amountString, ctx.remoteChainId,
                                          ctx.remoteContract, ctx.receiverAddress))),
                      !.events = Append(@, "sign")]
      [] step = "bridge_history" ->
           IF ctx.fail = "bridge_history"
           THEN [st EXCEPT !.ret = "bridge_history save failed",
                           !.events = Append(@, "bridge_history save failed")]
           ELSE [st EXCEPT !.bh = Append(@,
                               [chain_id |-> ctx.urn.ChainID, height |-> ctx.tx.height,
                                transaction_id |-> ctx.tx.id, token_id |-> ctx.tokenModel.id,
                                sender |-> ctx.sender, action |-> "send",
                                amount |-> Uint64Round(ctx.amount),
                                remote_chain_id |-> ctx.remoteChainId,
                                remote_contract |-> ctx.remoteContract,
                                receiver |-> ctx.receiverAddress,
                                signature |-> st.signature]),
                           !.events = Append(@, "bridge_history saved")]

RECURSIVE RunSteps(_, _, _)
\* the blocks run in order; the first failed Save returns its error
RunSteps(steps, ctx, st) ==
    IF steps = <<>> \/ st.ret # "nil" THEN st
    ELSE RunSteps(Tail(steps), ctx, RunStep(Head(steps), ctx, st))

\* the tables the checks of a send query with First, in program order
SendReads == <<"token", "bridge_remote_chain", "bridge_token", "token_holder">>

NoSignature == [b64 |-> [signer |-> 0, msg |-> <<>>]]

\* Process(transactionModel, protocolURN, rawTransaction): what it returns and
\* what it leaves in the three tables it writes
Process(tx, c, fail) ==
    LET st0 == [ret |-> "nil", events |-> <<>>, reads |-> <<>>, holder |-> token_holder,
                tah |-> token_address_history, bh |-> bridge_history,
                attestation |-> <<>>, signature |-> NoSignature]
        \* return an error after having queried the first n of the tables
        \* the checks of a send query, in program order
        Err(msg, n) == [st0 EXCEPT !.ret = msg, !.reads = SubSeq(SendReads, 1, n)]
        sender == c.sender
        parsedURN == ParsedURN(c)
        ticker == NormalizeTicker(KV(parsedURN, "tic"))
        tokenModel ==
            First(token, {i \in DOMAIN token :
                             token[i].chain_id = parsedURN.ChainID /\ token[i].ticker = ticker})
        remoteChainId == TrimSpace(KV(parsedURN, "rch"))
        remoteChainModel ==
            First(bridge_remote_chain,
                  {i \in DOMAIN bridge_remote_chain :
                      /\ bridge_remote_chain[i].chain_id = parsedURN.ChainID
                      /\ bridge_remote_chain[i].remote_chain_id = remoteChainId})
        remoteContract == TrimSpace(KV(parsedURN, "rco"))
        bridgeTokenModel ==
            First(bridge_token,
                  {i \in DOMAIN bridge_token :
                      /\ bridge_token[i].remote_chain_id = remoteChainModel.id
                      /\ bridge_token[i].token_id = tokenModel.id})
        receiverAddress == TrimSpace(KV(parsedURN, "dst"))
        amountString == TrimSpace(KV(parsedURN, "amt"))
        amount == ParseFloat(amountString)
        holderKey == <<tokenModel.id, sender>>
        ctx == [tx |-> tx, urn |-> parsedURN, sender |-> sender, fail |-> fail,
                tokenModel |-> tokenModel, holderKey |-> holderKey,
                amountString |-> amountString, amount |-> amount,
                remoteChainId |-> remoteChainId, remoteContract |-> remoteContract,
                receiverAddress |-> receiverAddress]
    IN  IF sender = "unknown" THEN Err("sender address error", 0)
        ELSE IF c.parse # "ok" THEN Err("malformed URN", 0)
        ELSE IF ChainMismatch(parsedURN.ChainID, proc.chainID) THEN Err("chain ID mismatch", 0)
        ELSE IF parsedURN.Operation # "send" THEN st0
        ELSE IF tokenModel = NotFound THEN Err("token doesn't exist", 1)
        ELSE IF remoteChainModel = NotFound THEN Err("remote chain doesn't exist", 2)
        ELSE IF RemoteContractMismatch(remoteChainModel, remoteContract)
             THEN Err("incorrect remote contract", 2)
        ELSE IF BridgeTokenDisabled(bridgeTokenModel)
             THEN Err("token not enabled for bridging", 3)
        ELSE IF amount.err THEN Err("unable to parse amount", 3)
        ELSE IF NotPositive(amount) THEN Err("amount must be greater than 0", 3)
        ELSE IF holderKey \notin DOMAIN token_holder
             THEN Err("sender does not have any tokens", 4)
        ELSE IF InsufficientBalance(token_holder[holderKey], amount)
             THEN Err("sender does not have enough tokens", 4)
        ELSE RunSteps(SendSteps, ctx, [st0 EXCEPT !.reads = SendReads])

\* the transaction row the indexer hands to the n-th Process call
TransactionModel(n) == [id |-> n, hash |-> <<"h">> \o FormatUint(n), height |-> 100 + n]

HashNeverUsed(rows, hash) == FALSE

\* CONSTRAINT transaction_hash_key UNIQUE (hash): an insert of this hash is refused
HashUsed(rows, hash) == \E i \in DOMAIN rows : rows[i].hash = hash

\* what the bridge leaves alone
BridgeFrame ==
    UNCHANGED <<proc, token, bridge_remote_chain, bridge_token, marketplace_listing,
                marketplace_cft20_detail, marketplace_listing_history,
                inscription_history, inscription, marketplace_inscription_detail, status>>

\* the indexer is handed a transaction: it inserts the transaction row and
\* calls Process; a transaction whose hash is already stored is skipped
Deliver(tx, c, fail, again) ==
    IF HashUsed(transaction, tx.hash)
    THEN /\ fail = "none"
         /\ last' = [last EXCEPT !.redelivered = TRUE]
         /\ UNCHANGED <<transaction, token_holder, token_address_history, bridge_history>>
    ELSE LET r == Process(tx, c, fail)
         IN  /\ fail # "none" => \E i \in DOMAIN r.events : r.events[i] = fail \o " save failed"
             /\ transaction' = Append(transaction, tx)
             /\ token_holder' = r.holder
             /\ token_address_history' = r.tah
             /\ bridge_history' = r.bh
             /\ last' = [called |-> TRUE, tx |-> tx, call |-> c, fail |-> fail,
                         ret |-> r.ret, events |-> r.events, reads |-> r.reads,
                         redelivered |-> again,
                         attestation |-> r.attestation, signature |-> r.signature]

\* the indexer calls Process for the next transaction of the chain
ProcessTransaction ==
    /\ proc.state = "running"
    /\ Len(transaction) < MaxTx
    /\ \E c \in Calls, fail \in Failures :
          Deliver(TransactionModel(Len(transaction) + 1), c, fail, FALSE)
    /\ BridgeFrame

\* a replayed height hands the indexer the transaction it processed last
ReplayTransaction ==
    /\ proc.state = "running"
    /\ last.called /\ ~last.redelivered
    /\ \E fail \in Failures :
          Deliver([TransactionModel(Len(transaction) + 1) EXCEPT
                       !.hash = last.tx.hash, !.height = last.tx.height],
                  last.call, fail, TRUE)
    /\ BridgeFrame

Next == Start \/ ProcessTransaction

Spec == Init /\ [][Next]_vars

NextReplay == Start \/ ProcessTransaction \/ ReplayTransaction

\* the bridge under an indexer that replays processed heights
SpecReplay == Init /\ [][NextReplay]_vars

(***************************************************************************)
(* The store: an INSERT is accepted unless a constraint of the table       *)
(* refuses it.  The primary keys are serial ids, so they refuse nothing.   *)
(***************************************************************************)
\* the tables whose definition has a UNIQUE (transaction_id) constraint
UniqueTransactionID(table) == table = "inscription_history"

TransactionIDUsed(rows, id) == \E i \in DOMAIN rows : rows[i].transaction_id = id

InsertAccepted(table, rows, row) ==
    ~(UniqueTransactionID(table) /\ TransactionIDUsed(rows, row.transaction_id))

\* rows a writer sends to a history table: a row of the table's shape for a
\* transaction of the transaction table or for the row's own transaction
HistoryRows(rows) ==
    {[rows[i] EXCEPT !.transaction_id = id] :
        i \in DOMAIN rows,
        id \in {rows[j].transaction_id : j \in DOMAIN rows}
                 \cup {transaction[j].id : j \in DOMAIN transaction}}

\* rows a writer sends to bridge_remote_chain, under the next serial id
RemoteChainRows ==
    {[id |-> Len(bridge_remote_chain) + 1, chain_id |-> LocalChain,
      remote_chain_id |-> bridge_remote_chain[i].remote_chain_id,
      remote_contract |-> contract] :
        i \in DOMAIN bridge_remote_chain, contract \in {<<"k", "a">>, <<"k", "b">>}}

StoredRows ==
    Len(inscription_history) + Len(token_address_history)
        + Len(marketplace_listing_history) + Len(bridge_history) + Len(bridge_remote_chain)

StoreInsert ==
    /\ proc.state = "running"
    /\ StoredRows < MaxRows
    /\ \/ /\ \E row \in HistoryRows(inscription_history) :
                /\ InsertAccepted("inscription_history", inscription_history, row)
                /\ inscription_history' = Append(inscription_history, row)
          /\ UNCHANGED <<token_address_history, marketplace_listing_history,
                         bridge_history, bridge_remote_chain>>
       \/ /\ \E row \in HistoryRows(token_address_history) :
                /\ InsertAccepted("token_address_history", token_address_history, row)
                /\ token_address_history' = Append(token_address_history, row)
          /\ UNCHANGED <<inscription_history, marketplace_listing_history,
                         bridge_history, bridge_remote_chain>>
       \/ /\ \E row \in HistoryRows(marketplace_listing_history) :
                /\ InsertAccepted("marketplace_listing_history",
                                  marketplace_listing_history, row)
                /\ marketplace_listing_history' = Append(marketplace_listing_history, row)
          /\ UNCHANGED <<inscription_history, token_address_history,
                         bridge_history, bridge_remote_chain>>
       \/ /\ \E row \in HistoryRows(bridge_history) :
                /\ InsertAccepted("bridge_history", bridge_history, row)
                /\ bridge_history' = Append(bridge_history, row)
          /\ UNCHANGED <<inscription_history, token_address_history,
                         marketplace_listing_history, bridge_remote_chain>>
       \/ /\ \E row \in RemoteChainRows :
                bridge_remote_chain' = Append(bridge_remote_chain, row)
          /\ UNCHANGED <<inscription_history, token_address_history,
                         marketplace_listing_history, bridge_history>>
    /\ UNCHANGED <<proc, token, token_holder, bridge_token, marketplace_listing,
                   marketplace_cft20_detail, inscription, marketplace_inscription_detail,
                   status, transaction, last>>

\* the indexer hands Process a send the initial database accepts
ProcessReference ==
    /\ proc.state = "running"
    /\ Len(transaction) < MaxTx
    /\ Deliver(TransactionModel(Len(transaction) + 1), Reference, "none", FALSE)
    /\ BridgeFrame

NextStore == Start \/ ProcessReference \/ StoreInsert

SpecStore == Init /\ [][NextStore]_vars

(***************************************************************************)
(* The marketplace protocol on CFT-20 listings and the indexer loop's      *)
(* timeout sweeper, each step with the effects of its contract.            *)
(***************************************************************************)
Open(l) == ~l.is_deposited /\ ~l.is_filled /\ ~l.is_cancelled

Reserved(l) == l.is_deposited /\ ~l.is_filled /\ ~l.is_cancelled

\* the height of the block the indexer loop is processing
CurrentHeight == status.last_processed_height + 1

\* the transaction row of a marketplace transaction of the current block
MarketTx == [TransactionModel(Len(transaction) + 1) EXCEPT !.height = CurrentHeight]

Credit(holder, key, amt) ==
    IF key \in DOMAIN holder THEN [holder EXCEPT ![key] = @ + amt]
    ELSE holder @@ (key :> amt)

DetailOf(listing) ==
    marketplace_cft20_detail[CHOOSE i \in DOMAIN marketplace_cft20_detail :
                                marketplace_cft20_detail[i].listing_id = listing]

ListingHistory(listing, sender, action) ==
    [listing_id |-> listing, transaction_id |-> MarketTx.id,
     sender_address |-> sender, action |-> action]

List(sender, t, amt) ==
    /\ Len(transaction) < MaxTx
    /\ <<token[t].id, sender>> \in DOMAIN token_holder
    /\ token_holder[<<token[t].id, sender>>] >= amt
    /\ token_holder' = [token_holder EXCEPT ![<<token[t].id, sender>>] = @ - amt]
    /\ marketplace_listing' = Append(marketplace_listing,
          [id |-> Len(marketplace_listing) + 1, seller_address |-> sender,
           transaction_id |-> MarketTx.id, deposit_timeout |-> 1,
           depositor_address |-> "", depositor_timedout_block |-> 0,
           is_deposited |-> FALSE, is_filled |-> FALSE, is_cancelled |-> FALSE])
    /\ marketplace_cft20_detail' = Append(marketplace_cft20_detail,
          [id |-> Len(marketplace_cft20_detail) + 1,
           listing_id |-> Len(marketplace_listing) + 1,
           token_id |-> token[t].id, amount |-> amt])
    /\ marketplace_listing_history' = Append(marketplace_listing_history,
          ListingHistory(Len(marketplace_listing) + 1, sender, "list"))
    /\ transaction' = Append(transaction, MarketTx)
    /\ UNCHANGED <<proc, token, token_address_history, bridge_history, bridge_remote_chain,
                   bridge_token, inscription_history, inscription,
                   marketplace_inscription_detail, status, last>>

Deposit(sender, i) ==
    /\ Len(transaction) < MaxTx
    /\ Open(marketplace_listing[i])
    /\ sender # marketplace_listing[i].seller_address
    /\ marketplace_listing' = [marketplace_listing EXCEPT
          ![i].is_deposited = TRUE,
          ![i].depositor_address = sender,
          ![i].depositor_timedout_block = CurrentHeight + marketplace_listing[i].deposit_timeout]
    /\ transaction' = Append(transaction, MarketTx)
    /\ UNCHANGED <<proc, token, token_holder, token_address_history, bridge_history,
                   bridge_remote_chain, bridge_token, marketplace_cft20_detail,
                   marketplace_listing_history, inscription_history, inscription,
                   marketplace_inscription_detail, status, last>>

\* a listing with a marketplace_cft20_detail row sells tokens, any other an inscription
IsCft20Listing(listing) ==
    \E i \in DOMAIN marketplace_cft20_detail :
        marketplace_cft20_detail[i].listing_id = listing

InscriptionOf(listing) ==
    marketplace_inscription_detail[CHOOSE i \in DOMAIN marketplace_inscription_detail :
        marketplace_inscription_detail[i].listing_id = listing].inscription_id

\* the height precondition of buy
BuyInTime(l, height) == height <= l.depositor_timedout_block

Buy(sender, i) ==
    /\ Len(transaction) < MaxTx
    /\ Reserved(marketplace_listing[i])
    /\ sender = marketplace_listing[i].depositor_address
    /\ BuyInTime(marketplace_listing[i], CurrentHeight)
    /\ marketplace_listing' = [marketplace_listing EXCEPT ![i].is_filled = TRUE]
    /\ IF IsCft20Listing(i)
       THEN /\ token_holder' = Credit(token_holder, <<DetailOf(i).token_id, sender>>,
                                      DetailOf(i).amount)
            /\ token_address_history' = Append(token_address_history,
                  [chain_id |-> LocalChain, transaction_id |-> MarketTx.id,
                   action |-> "transfer",
                   sender |-> marketplace_listing[i].seller_address, receiver |-> sender,
                   token_id |-> DetailOf(i).token_id, amount |-> DetailOf(i).amount,
                   height |-> CurrentHeight])
            /\ UNCHANGED <<inscription, inscription_history>>
       ELSE /\ inscription' = [inscription EXCEPT ![InscriptionOf(i)].current_owner = sender]
            /\ inscription_history' = Append(inscription_history,
                  [inscription_id |-> InscriptionOf(i), transaction_id |-> MarketTx.id,
                   sender |-> marketplace_listing[i].seller_address, receiver |-> sender,
                   action |-> "buy"])
            /\ UNCHANGED <<token_holder, token_address_history>>
    /\ transaction' = Append(transaction, MarketTx)
    /\ UNCHANGED <<proc, token, bridge_history, bridge_remote_chain, bridge_token,
                   marketplace_cft20_detail, marketplace_inscription_detail,
                   marketplace_listing_history, status, last>>

Delist(sender, i) ==
    /\ Len(transaction) < MaxTx
    /\ sender = marketplace_listing[i].seller_address
    /\ ~marketplace_listing[i].is_filled
    /\ marketplace_listing' = [marketplace_listing EXCEPT ![i].is_cancelled = TRUE]
    /\ token_holder' = IF IsCft20Listing(i)
                       THEN Credit(token_holder, <<DetailOf(i).token_id, sender>>,
                                   DetailOf(i).amount)
                       ELSE token_holder
    /\ marketplace_listing_history' = Append(marketplace_listing_history,
          ListingHistory(i, sender, "delist"))
    /\ transaction' = Append(transaction, MarketTx)
    /\ UNCHANGED <<proc, token, token_address_history, bridge_history, bridge_remote_chain,
                   bridge_token, marketplace_cft20_detail, inscription_history, inscription,
                   marketplace_inscription_detail, status, last>>

TimedOut(l, h) ==
    l.is_deposited /\ ~l.is_filled /\ ~l.is_cancelled /\ l.depositor_timedout_block < h

RECURSIVE TimeoutHistory(_, _, _)
\* the history rows the sweeper appends at height h for the listings from i on
TimeoutHistory(listings, i, h) ==
    IF i > Len(listings) THEN <<>>
    ELSE (IF TimedOut(listings[i], h)
          THEN <<[listing_id |-> listings[i].id, transaction_id |-> listings[i].transaction_id,
                  sender_address |-> listings[i].depositor_address, action |-> "timeout"]>>
          ELSE <<>>) \o TimeoutHistory(listings, i + 1, h)

Sweeper(listings, h) ==
    [i \in DOMAIN listings |->
        IF TimedOut(listings[i], h)
        THEN [listings[i] EXCEPT !.is_deposited = FALSE, !.depositor_address = "",
                                 !.depositor_timedout_block = 0]
        ELSE listings[i]]

\* the end of a block: the sweeper runs and the status row advances
EndBlock ==
    /\ status.last_processed_height < InitStatus.last_processed_height + MaxBlocks
    /\ marketplace_listing' = Sweeper(marketplace_listing, CurrentHeight)
    /\ marketplace_listing_history' =
          marketplace_listing_history \o TimeoutHistory(marketplace_listing, 1, CurrentHeight)
    /\ status' = [status EXCEPT !.last_processed_height = CurrentHeight]
    /\ UNCHANGED <<proc, token, token_holder, token_address_history, bridge_history,
                   bridge_remote_chain, bridge_token, marketplace_cft20_detail,
                   inscription_history, inscription, marketplace_inscription_detail,
                   transaction, last>>

Traders == {"A", "B"}

NextMarket ==
    \/ \E sender \in Traders, t \in DOMAIN token, amt \in 1..2 : List(sender, t, amt)
    \/ \E sender \in Traders, i \in DOMAIN marketplace_listing : Deposit(sender, i)
    \/ \E sender \in Traders, i \in DOMAIN marketplace_listing : Buy(sender, i)
    \/ \E sender \in Traders, i \in DOMAIN marketplace_listing : Delist(sender, i)
    \/ EndBlock

SpecMarket == Init /\ [][NextMarket]_vars

(***************************************************************************)
(* The SDK: BridgeProtocol.send builds the parameters of a send, and       *)
(* buildOperation renders them into the URN the indexer parses.  A number  *)
(* is a decimal num / den without trailing zeros, or NaN.                  *)
(***************************************************************************)
Number(num, den) == [nan |-> FALSE, num |-> num, den |-> den]

NaN == [nan |-> TRUE, num |-> 0, den |-> 1]

RECURSIVE FractionDigits(_, _)
\* the digits of frac / den after the decimal point
FractionDigits(frac, den) ==
    IF den = 1 THEN <<>>
    ELSE <<Digits[(frac * 10) \div den + 1]>> \o FractionDigits((frac * 10) % den, den \div 10)

\* Number.prototype.toString, which a template literal applies to a number
NumberToString(n) ==
    IF n.nan THEN <<"N", "a", "N">>
    ELSE IF n.den = 1 THEN FormatUint(n.num)
    ELSE FormatUint(n.num \div n.den) \o <<".">> \o FractionDigits(n.num % n.den, n.den)

sendLegacyKeys(ticker, amount, remoteChain, remoteContract, receiver) ==
    <<<<"tic", ticker>>, <<"amt", NumberToString(amount)>>,
      <<"to", receiver>>, <<"dst", remoteContract>>>>

\* BridgeProtocol.send: the params list, in order
send(ticker, amount, remoteChain, remoteContract, receiver) ==
    <<<<"tic", ticker>>, <<"amt", NumberToString(amount)>>, <<"rch", remoteChain>>,
      <<"rco", remoteContract>>, <<"dst", receiver>>>>

\* buildOperation(protocol, fee, chainId, op, params), the URN's path through
\* the memo and ParseProtocolString: the call Process is handed
buildOperation(name, chainId, op, params, sender) ==
    LET value(k) == IF \E i \in DOMAIN params : params[i][1] = k
                    THEN params[CHOOSE i \in DOMAIN params : params[i][1] = k][2]
                    ELSE Missing
    IN  [parse |-> IF name = "bridge" THEN "ok" ELSE "malformed",
         chain |-> chainId, op |-> op,
         tic |-> value("tic"), amt |-> value("amt"), rch |-> value("rch"),
         rco |-> value("rco"), dst |-> value("dst"), sender |-> sender]

\* what the users of the SDK send
SdkSends ==
    LET s(sender, ticker, amount, remoteChain, remoteContract, receiver) ==
            [sender |-> sender, ticker |-> ticker, amount |-> amount,
             remoteChain |-> remoteChain, remoteContract |-> remoteContract,
             receiver |-> receiver]
        o1 == <<"o", "1">>
        ka == <<"k", "a">>
        rx == <<"r", "x">>
    IN  {s("A", TK, Number(1, 1), o1, ka, rx),
         s("A", <<"t", "k">>, Number(1, 1), o1, ka, rx),
         s("A", <<" ", "t", "k", " ">>, Number(1, 1), o1, ka, rx),
         s("A", TK, Number(15, 10), o1, ka, rx),
         s("A", TK, Number(3, 1), o1, ka, rx),
         s("A", TK, Number(0, 1), o1, ka, rx),
         s("A", TK, NaN, o1, ka, rx),
         s("A", AB, Number(1, 1), o1, ka, rx),
         s("A", TK, Number(1, 1), <<"n", "9">>, ka, rx),
         s("A", TK, Number(1, 1), o1, <<"k", "b">>, rx),
         s("A", TK, Number(1, 1), o1, ka, <<>>),
         s("B", TK, Number(2, 1), o1, ka, <<"r", "y">>)}

\* the call Process is handed for the SDK send a
SdkCall(a) ==
    buildOperation("bridge", LocalChain, "send",
                   send(a.ticker, a.amount, a.remoteChain, a.remoteContract, a.receiver),
                   a.sender)

\* BridgeOperations.send of a user, and the indexer's processing of it
SdkSend ==
    /\ proc.state = "running"
    /\ Len(transaction) < MaxTx
    /\ \E a \in SdkSends, fail \in Failures :
          Deliver(TransactionModel(Len(transaction) + 1), SdkCall(a), fail, FALSE)
    /\ BridgeFrame

NextSdk == StartBuild \/ SdkSend

\* the bridge fed by the SDK's sends
SpecSdk == Init /\ [][NextSdk]_vars

(***************************************************************************)
(* AsteroidClient: the rows each query's where-expression selects.  A page *)
(* (offset, limit, order_by) is a part of that selection.                  *)
(***************************************************************************)
Undefined == "undefined"    \* a property the caller did not give

\* JavaScript truthiness of an optional string, and of a number
Truthy(v) == v \notin {Undefined, ""}

TruthyNumber(n) == n # 0

\* what {_eq: undefined} can mean to the API: the comparison is dropped from
\* the expression, or it is a comparison with null that no row passes
EqUndefined == {"dropped", "null"}

\* column: {_eq: v}
Eq(column, v, eqUndefined) ==
    IF v = Undefined THEN eqUndefined = "dropped" ELSE column = v

ListingOf(detail) ==
    marketplace_listing[CHOOSE l \in DOMAIN marketplace_listing :
                           marketplace_listing[l].id = detail.listing_id]

\* the marketplace_cft20_detail rows queryWhere selects
getTokenListings(tokenId, where, eqUndefined) ==
    {i \in DOMAIN marketplace_cft20_detail :
        LET l == ListingOf(marketplace_cft20_detail[i])
        IN  /\ marketplace_cft20_detail[i].token_id = tokenId
            /\ ~l.is_cancelled /\ ~l.is_filled
            /\ Truthy(where.seller) => l.seller_address = where.seller
            /\ (Truthy(where.depositor) /\ TruthyNumber(where.currentBlock)) =>
                  /\ Eq(l.depositor_address, where.seller, eqUndefined)
                  /\ l.depositor_timedout_block > where.currentBlock
                  /\ l.is_deposited}

RECURSIVE Lowest(_, _)
\* order_by id asc, limit: the limit lowest of a set of row numbers
Lowest(rows, limit) ==
    IF rows = {} \/ limit = 0 THEN {}
    ELSE LET m == CHOOSE i \in rows : \A j \in rows : i <= j
         IN  {m} \cup Lowest(rows \ {m}, limit - 1)

\* the marketplace_inscription_detail rows the query returns
getReservedInscriptions(depositor, currentBlock, limit) ==
    Lowest({i \in DOMAIN marketplace_inscription_detail :
               LET l == ListingOf(marketplace_inscription_detail[i])
               IN  /\ ~l.is_cancelled /\ ~l.is_filled /\ l.is_deposited
                   /\ l.depositor_address = depositor
                   /\ l.depositor_timedout_block > currentBlock},
           limit)

\* the blocks a caller asks about
Blocks == InitStatus.last_processed_height .. (InitStatus.last_processed_height + MaxBlocks + 1)
\* where: {token_id: {_eq: tokenId}, amount: {_gt: 0}}
getTokenHolders(tokenId) ==
    {k \in DOMAIN token_holder : k[1] = tokenId /\ token_holder[k] > 0}

\* where: {address: {_eq: address}, token_id: {_eq: tokenId}}
getTokenHolding(tokenId, address) ==
    {k \in DOMAIN token_holder : k[2] = address /\ k[1] = tokenId}

\* where: {address: {_eq: address}}, no search text given
getTokenHoldings(address) ==
    {k \in DOMAIN token_holder : k[2] = address}

(***************************************************************************)
(* Vocabulary of the properties                                            *)
(***************************************************************************)
\* the step is a Process call
Called == transaction' # transaction

\* a call whose URN parses, with a known sender, naming the operation send
IsSend(c) == c.parse = "ok" /\ c.sender # "unknown" /\ c.op = "send"

Happened(ev, e) == \E i \in DOMAIN ev : ev[i] = e

\* the three tables a send writes
Written == <<token_holder, token_address_history, bridge_history>>

\* the URN's parameters as values: surrounding white space is not part of them
Param(c, k) == IF c[k] = Missing THEN <<>> ELSE TrimSpace(c[k])

\* the token rows a call's ticker names
NamedTokens(c) ==
    {i \in DOMAIN token : token[i].chain_id = c.chain
                            /\ token[i].ticker = ToUpper(Param(c, "tic"))}

\* the bridge_remote_chain rows for (local chain, rch)
NamedRemoteChains(c) ==
    {i \in DOMAIN bridge_remote_chain :
        /\ bridge_remote_chain[i].chain_id = LocalChain
        /\ bridge_remote_chain[i].remote_chain_id = Param(c, "rch")}

RECURSIVE SumOver(_, _)
SumOver(f, S) ==
    IF S = {} THEN 0
    ELSE LET x == CHOOSE x \in S : TRUE IN f[x] + SumOver(f, S \ {x})

\* sum of token_holder.amount over the holders of token t
HeldSupply(t) == SumOver(token_holder, {k \in DOMAIN token_holder : k[1] = t})

\* amount escrowed in the active CFT-20 listings of token t
EscrowedSupply(t) ==
    LET active == {i \in DOMAIN marketplace_cft20_detail :
                     /\ marketplace_cft20_detail[i].token_id = t
                     /\ \E l \in DOMAIN marketplace_listing :
                          /\ marketplace_listing[l].id = marketplace_cft20_detail[i].listing_id
                          /\ ~marketplace_listing[l].is_filled
                          /\ ~marketplace_listing[l].is_cancelled}
    IN  SumOver([i \in active |-> marketplace_cft20_detail[i].amount], active)

(***************************************************************************)
(* C1: in every send the signature is produced only after the holder debit *)
(* and the token_address_history insert were both written; when either     *)
(* write fails, Process returns an error and Sign is never called.         *)
(***************************************************************************)
C1_SignatureLast ==
    last.called =>
        LET ev == last.events
        IN  /\ \A i \in DOMAIN ev :
                  ev[i] = "sign" =>
                      /\ \E j \in 1..(i - 1) : ev[j] = "token_holder saved"
                      /\ \E j \in 1..(i - 1) : ev[j] = "token_address_history saved"
            /\ (Happened(ev, "token_holder save failed")
                  \/ Happened(ev, "token_address_history save failed"))
               => last.ret # "nil" /\ ~Happened(ev, "sign")

\* a send reached Sign after its history row was written
C1_Witness ==
    /\ last.called /\ Happened(last.events, "sign")
    /\ Len(token_address_history) > 0

(***************************************************************************)
(* C2: a send is atomic: when Process returns an error, none of the holder *)
(* debit, the token_address_history row and the bridge_history row is      *)
(* persisted, and when it returns nil for a send all three are.            *)
(***************************************************************************)
C2_SendAtomic ==
    [][Called =>
         \/ /\ last'.ret # "nil"
            /\ Written' = Written
         \/ /\ last'.ret = "nil"
            /\ IsSend(last'.call) =>
                  /\ Happened(last'.events, "token_holder saved")
                  /\ Len(token_address_history') = Len(token_address_history) + 1
                  /\ Len(bridge_history') = Len(bridge_history) + 1]_vars

(***************************************************************************)
(* C3: supply conservation: for every token, the holders' amounts plus the *)
(* amount escrowed in active CFT-20 listings equal circulating_supply.     *)
(***************************************************************************)
C3_SupplyConservation ==
    \A t \in DOMAIN token :
        HeldSupply(token[t].id) + EscrowedSupply(token[t].id) = token[t].circulating_supply

(***************************************************************************)
(* C4: no holder balance is ever negative, and a send whose amount exceeds *)
(* the sender's balance as left by the preceding sends is rejected.        *)
(***************************************************************************)
C4_NoOverdraft ==
    [][Called =>
         /\ \A k \in DOMAIN token_holder' : token_holder'[k] >= 0
         /\ \A t \in NamedTokens(last'.call) :
               LET key == <<token[t].id, last'.call.sender>>
                   amt == ParseFloat(Param(last'.call, "amt"))
               IN  (/\ IsSend(last'.call)
                    /\ last'.ret = "nil"
                    /\ key \in DOMAIN token_holder
                    /\ ~amt.err)
                   => amt.num <= token_holder[key] * amt.den]_vars

\* the part of C4 the code keeps: balances stay non-negative and a holder is
\* never debited more than it had
C4_BalancesNonNegative ==
    \A k \in DOMAIN token_holder :
        token_holder[k] >= 0 /\ token_holder[k] <= InitTokenHolder[k]

(***************************************************************************)
(* C5: a send succeeds only if a bridge_remote_chain row exists for (local *)
(* chain id, rch) and its remote_contract equals rco; otherwise Process    *)
(* returns an error and nothing is debited or signed.                      *)
(***************************************************************************)
C5_RemoteChainGate ==
    [][(Called /\ IsSend(last'.call)) =>
         \/ \E i \in NamedRemoteChains(last'.call) :
               bridge_remote_chain[i].remote_contract = Param(last'.call, "rco")
         \/ /\ last'.ret # "nil"
            /\ Written' = Written
            /\ ~Happened(last'.events, "sign")]_vars

\* a send for a known remote chain was refused for its contract
C5_Witness ==
    /\ last.called /\ IsSend(last.call)
    /\ NamedRemoteChains(last.call) # {}
    /\ last.call.rco = <<"k", "b">>
    /\ last.ret = "incorrect remote contract"

(***************************************************************************)
(* C6: a send succeeds only if a bridge_token row exists for (the matched  *)
(* remote chain row's id, the token's id) with enabled = true; otherwise   *)
(* Process returns an error, debits no holder, writes no history row and   *)
(* produces no signature.                                                  *)
(***************************************************************************)
C6_BridgeTokenGate ==
    [][(Called /\ IsSend(last'.call)) =>
         \/ \E t \in NamedTokens(last'.call), i \in NamedRemoteChains(last'.call),
               b \in DOMAIN bridge_token :
               /\ bridge_token[b].remote_chain_id = bridge_remote_chain[i].id
               /\ bridge_token[b].token_id = token[t].id
               /\ bridge_token[b].enabled
         \/ /\ last'.ret # "nil"
            /\ Written' = Written
            /\ ~Happened(last'.events, "sign")]_vars

\* a send of a token whose bridge_token row is disabled was refused
C6_Witness ==
    /\ last.called /\ IsSend(last.call)
    /\ last.call.tic = AB
    /\ last.ret = "token not enabled for bridging"

(***************************************************************************)
(* C7: when a send names a ticker with no token row, or the sender has no  *)
(* holder row for the token, or the sender's holder amount is less than    *)
(* amt, Process returns an error, leaves every holder row and both history *)
(* tables unchanged and produces no signature.                             *)
(***************************************************************************)
C7_PreconditionErrors ==
    [][(Called /\ IsSend(last'.call)) =>
         LET c == last'.call
             amt == ParseFloat(Param(c, "amt"))
             refused ==
                 \/ NamedTokens(c) = {}
                 \/ \E t \in NamedTokens(c) :
                       \/ <<token[t].id, c.sender>> \notin DOMAIN token_holder
                       \/ /\ ~amt.err
                          /\ token_holder[<<token[t].id, c.sender>>] * amt.den < amt.num
         IN  refused =>
                 /\ last'.ret # "nil"
                 /\ Written' = Written
                 /\ ~Happened(last'.events, "sign")]_vars

(***************************************************************************)
(* C8: for every successful send the signed byte string is exactly         *)
(* chain_id, the transaction hash, the ticker, the amount literal, rch,    *)
(* rco and dst concatenated in this order with no separators.              *)
(***************************************************************************)
C8_AttestationLayout ==
    (last.called /\ IsSend(last.call) /\ last.ret = "nil") =>
        LET row == bridge_history[Len(bridge_history)]
            c == last.call
        IN  \A t \in NamedTokens(c) :
               B64Decode(row.signature).msg =
                   LocalChain \o transaction[row.transaction_id].hash \o token[t].ticker
                     \o Param(c, "amt") \o Param(c, "rch") \o Param(c, "rco")
                     \o Param(c, "dst")

\* a send succeeded and its row carries a signature over a non-empty string
C8_Witness ==
    /\ last.called /\ IsSend(last.call) /\ last.ret = "nil"
    /\ Len(bridge_history) > 0
    /\ B64Decode(bridge_history[Len(bridge_history)].signature).msg # <<>>

(***************************************************************************)
(* C9: for every successful send the signature stored in bridge_history    *)
(* verifies against the configured public key (BRIDGE_PUBLIC_KEY) over the *)
(* attestation of that send, for every key configuration with which the    *)
(* processor starts.                                                       *)
(***************************************************************************)
C9_VerifiesUnderConfiguredKey ==
    (last.called /\ IsSend(last.call) /\ last.ret = "nil") =>
        Verify(proc.env.pub, last.attestation,
               B64Decode(bridge_history[Len(bridge_history)].signature))

(***************************************************************************)
(* C10: for every bridge_history row the stored signature verifies over    *)
(* the attestation rebuilt from stored data alone: chain_id, the hash of   *)
(* the referenced transaction, the referenced token's ticker, the decimal  *)
(* rendering of the row's amount, and the row's remote_chain_id,           *)
(* remote_contract and receiver.                                           *)
(***************************************************************************)
C10_VerifiesFromStoredData ==
    \A i \in DOMAIN bridge_history :
        LET row == bridge_history[i]
            tk == CHOOSE t \in DOMAIN token : token[t].id = row.token_id
        IN  Verify(EnvEd(proc.privKey.pair),
                   row.chain_id \o transaction[row.transaction_id].hash \o token[tk].ticker
                     \o FormatUint(row.amount) \o row.remote_chain_id
                     \o row.remote_contract \o row.receiver,
                   B64Decode(row.signature))

(***************************************************************************)
(* C11: a successful send with amount amt decreases the sender's holder    *)
(* amount by exactly amt, and the amounts recorded in the                  *)
(* token_address_history row and in the bridge_history row both equal the  *)
(* debited amount, for every accepted amount (fractional ones included).   *)
(***************************************************************************)
C11_DebitEqualsRecorded ==
    [][(Called /\ IsSend(last'.call) /\ last'.ret = "nil") =>
         \A t \in NamedTokens(last'.call) :
            LET key == <<token[t].id, last'.call.sender>>
                amt == ParseFloat(Param(last'.call, "amt"))
                debited == token_holder[key] - token_holder'[key]
            IN  /\ debited * amt.den = amt.num
                /\ token_address_history'[Len(token_address_history')].amount = debited
                /\ bridge_history'[Len(bridge_history')].amount = debited]_vars

(***************************************************************************)
(* C12: every Process call that returns nil has appended exactly one       *)
(* token_address_history row and exactly one bridge_history row carrying   *)
(* that transaction's id, whatever the operation named in the URN.         *)
(***************************************************************************)
C12_OneHistoryRowPerSuccess ==
    (last.called /\ last.ret = "nil") =>
        /\ Cardinality({i \in DOMAIN token_address_history :
                           token_address_history[i].transaction_id = last.tx.id}) = 1
        /\ Cardinality({i \in DOMAIN bridge_history :
                           bridge_history[i].transaction_id = last.tx.id}) = 1

(***************************************************************************)
(* C13: a bridge URN whose operation is anything other than send makes     *)
(* Process return an error, with no protocol effects.                      *)
(***************************************************************************)
C13_UnknownOperationIsError ==
    [][(Called /\ last'.call.parse = "ok" /\ last'.call.sender # "unknown"
          /\ last'.call.op # "send") =>
         /\ last'.ret # "nil"
         /\ Written' = Written
         /\ ~Happened(last'.events, "sign")]_vars

(***************************************************************************)
(* C14: when the chain id of the parsed URN differs from the processor's   *)
(* configured chain id, Process returns an error before it reads or writes *)
(* any token, holder or history row.                                       *)
(***************************************************************************)
C14_ChainMismatchFirst ==
    [][(Called /\ last'.call.parse = "ok" /\ last'.call.sender # "unknown"
          /\ last'.call.chain # proc.chainID) =>
         /\ last'.ret # "nil"
         /\ last'.reads = <<>>
         /\ last'.events = <<>>
         /\ Written' = Written]_vars

\* a call for another chain was refused
C14_Witness ==
    /\ last.called /\ last.call.parse = "ok"
    /\ last.call.chain = OtherChain /\ proc.chainID = LocalChain
    /\ last.ret = "chain ID mismatch"

(***************************************************************************)
(* C15: the token_address_history row appended by a successful send has    *)
(* action "bridge", receiver "bridge", the transaction's sender, the       *)
(* token's id, the transaction's id and height, and amount = amt.          *)
(***************************************************************************)
C15_HistoryRowContent ==
    (last.called /\ IsSend(last.call) /\ last.ret = "nil") =>
        LET row == token_address_history[Len(token_address_history)]
            amt == ParseFloat(Param(last.call, "amt"))
        IN  /\ row.action = "bridge"
            /\ row.receiver = "bridge"
            /\ row.sender = last.call.sender
            /\ \E t \in NamedTokens(last.call) : row.token_id = token[t].id
            /\ row.transaction_id = last.tx.id
            /\ row.height = last.tx.height
            /\ row.amount * amt.den = amt.num

C20_KeysValidatedAtStartup ==
    LET valid == proc.env.priv.form = "ed25519" /\ proc.env.pub.form = "ed25519"
    IN  /\ (last.called \/ transaction # <<>> \/ bridge_history # <<>>)
              => (proc.state = "running" /\ valid)
        /\ (proc.state # "unstarted" /\ ~valid)
              => (proc.state \in {"fatal", "panic"} /\ ~last.called /\ transaction = <<>>)

\* startup ended the process on a public key that is not a DER key
C20_Witness ==
    /\ proc.state = "fatal"
    /\ proc.env.priv.form = "ed25519"
    /\ proc.env.pub.form = "notder"
    /\ ~last.called

(***************************************************************************)
(* C17: no history table in which one transaction produces one row         *)
(* (inscription_history, token_address_history,                            *)
(* marketplace_listing_history, bridge_history) holds two rows with the    *)
(* same transaction_id: the store rejects a second insert with a used id.  *)
(***************************************************************************)
C17_HistoryTransactionIDUnique ==
    \A rows \in {inscription_history, token_address_history,
                 marketplace_listing_history, bridge_history} :
        \A i, j \in DOMAIN rows :
            rows[i].transaction_id = rows[j].transaction_id => i = j

(***************************************************************************)
(* C18: after any sequence of list, deposit, buy, delist and sweeper steps *)
(* with the effects of their contracts, every listing's (is_deposited,     *)
(* is_filled, is_cancelled) is one of (F,F,F), (T,F,F), (F,T,F), (F,F,T).  *)
(***************************************************************************)
C18_ListingStateTotality ==
    \A i \in DOMAIN marketplace_listing :
        <<marketplace_listing[i].is_deposited, marketplace_listing[i].is_filled,
          marketplace_listing[i].is_cancelled>>
            \in {<<FALSE, FALSE, FALSE>>, <<TRUE, FALSE, FALSE>>,
                 <<FALSE, TRUE, FALSE>>, <<FALSE, FALSE, TRUE>>}

(***************************************************************************)
(* C19: at most one bridge_remote_chain row exists for any pair            *)
(* (chain_id, remote_chain_id), so the remote contract a send's rco is     *)
(* compared with is determined by the local chain and rch.                 *)
(***************************************************************************)
C19_RemoteChainUnique ==
    \A i, j \in DOMAIN bridge_remote_chain :
        (/\ bridge_remote_chain[i].chain_id = bridge_remote_chain[j].chain_id
         /\ bridge_remote_chain[i].remote_chain_id = bridge_remote_chain[j].remote_chain_id)
            => i = j

(***************************************************************************)
(* C21: a send of the sender's entire balance leaves the holder row in     *)
(* place with amount 0 (amounts stay >= 0), and every holder query of the  *)
(* client (getTokenHolders, getTokenHolding, getTokenHoldings) excludes    *)
(* the rows whose amount is 0.                                             *)
(***************************************************************************)
C21_ZeroRowsKeptAndFiltered ==
    /\ \A k \in DOMAIN InitTokenHolder : k \in DOMAIN token_holder /\ token_holder[k] >= 0
    /\ \A k \in DOMAIN token_holder :
          /\ \A r \in getTokenHolders(k[1]) : token_holder[r] # 0
          /\ \A r \in getTokenHolding(k[1], k[2]) : token_holder[r] # 0
          /\ \A r \in getTokenHoldings(k[2]) : token_holder[r] # 0

(***************************************************************************)
(* C22: a send, successful or not, leaves the token rows and every holder  *)
(* row other than the sender's row for that token unchanged and creates no *)
(* holder row; circulating_supply <= max_supply is preserved.              *)
(***************************************************************************)
C22_SendFrame ==
    [][(Called /\ IsSend(last'.call)) =>
         /\ token' = token
         /\ DOMAIN token_holder' = DOMAIN token_holder
         /\ \A k \in DOMAIN token_holder :
               (\A t \in NamedTokens(last'.call) : k # <<token[t].id, last'.call.sender>>)
                   => token_holder'[k] = token_holder[k]
         /\ \A t \in DOMAIN token' :
               token[t].circulating_supply <= token[t].max_supply
                   => token'[t].circulating_supply <= token'[t].max_supply]_vars

\* a send debited its sender while another holder of the token kept its row
C22_Witness ==
    /\ last.called /\ IsSend(last.call) /\ last.ret = "nil"
    /\ token_holder[<<1, "A">>] < InitTokenHolder[<<1, "A">>]
    /\ token_holder[<<1, "B">>] = InitTokenHolder[<<1, "B">>]

(***************************************************************************)
(* C23: for every successful send the amount literal in the signed         *)
(* attestation denotes exactly the number of tokens debited from the       *)
(* sender: no signature attests to more than was removed from the balance. *)
(***************************************************************************)
C23_AttestedAmountIsDebited ==
    [][(Called /\ IsSend(last'.call) /\ Happened(last'.events, "sign")) =>
         \A t \in NamedTokens(last'.call) :
            LET key == <<token[t].id, last'.call.sender>>
                literal == Param(last'.call, "amt")
                attested == ParseFloat(literal)
                before == Len(LocalChain) + Len(last'.tx.hash) + Len(token[t].ticker)
            IN  /\ SubSeq(last'.attestation, before + 1, before + Len(literal)) = literal
                /\ ~attested.err /\ ~attested.nan
                /\ attested.num <= (token_holder[key] - token_holder'[key]) * attested.den]_vars

(***************************************************************************)
(* C24: a send whose amt is missing, is not parseable as a number or is    *)
(* <= 0 returns an error before any write: holder and history rows stay    *)
(* unchanged and no signature is produced.                                 *)
(***************************************************************************)
C24_BadAmountRejected ==
    [][(Called /\ IsSend(last'.call)
          /\ LET amt == ParseFloat(Param(last'.call, "amt"))
             IN  amt.err \/ amt.nan \/ amt.neg \/ amt.num = 0) =>
         /\ last'.ret # "nil"
         /\ Written' = Written
         /\ ~Happened(last'.events, "sign")]_vars

(***************************************************************************)
(* C25: no signature is produced and the sender is not debited for a send  *)
(* whose receiver (dst) is absent or empty: every bridge_history row has a *)
(* non-empty receiver.                                                     *)
(***************************************************************************)
C25_ReceiverRequired ==
    [][Called =>
         /\ (IsSend(last'.call) /\ Param(last'.call, "dst") = <<>>) =>
               /\ ~Happened(last'.events, "sign")
               /\ token_holder' = token_holder
         /\ \A i \in DOMAIN bridge_history' : bridge_history'[i].receiver # <<>>]_vars

(***************************************************************************)
(* C26: the ticker of a send is trimmed and upper-cased before the token   *)
(* lookup and the attestation carries the stored token's ticker: two sends *)
(* that differ only in the letter case or surrounding white space of tic   *)
(* resolve to the same token and sign the same ticker bytes.               *)
(***************************************************************************)
C26_TickerNormalized ==
    [][(Called /\ IsSend(last'.call) /\ last'.call.chain = proc.chainID) =>
         /\ (NamedTokens(last'.call) = {}) <=> (last'.ret = "token doesn't exist")
         /\ Happened(last'.events, "sign") =>
               \E t \in NamedTokens(last'.call) :
                  LET before == Len(LocalChain) + Len(last'.tx.hash)
                  IN  /\ token_address_history'[Len(token_address_history')].token_id
                            = token[t].id
                      /\ SubSeq(last'.attestation, before + 1,
                                before + Len(token[t].ticker)) = token[t].ticker
         /\ \A a, b \in SdkSends :
               (a # b /\ [a EXCEPT !.ticker = <<>>] = [b EXCEPT !.ticker = <<>>]
                  /\ ToUpper(TrimSpace(a.ticker)) = ToUpper(TrimSpace(b.ticker))) =>
                   LET ra == Process(last'.tx, SdkCall(a), "none")
                       rb == Process(last'.tx, SdkCall(b), "none")
                   IN  /\ ra.ret = rb.ret
                       /\ ra.holder = rb.holder
                       /\ ra.tah = rb.tah
                       /\ ra.attestation = rb.attestation]_vars

\* a send naming the token in lower case with white space signed its stored ticker
C26_Witness ==
    /\ last.called /\ last.ret = "nil"
    /\ last.call.tic = <<" ", "t", "k", " ">>
    /\ SubSeq(last.attestation, Len(LocalChain) + Len(last.tx.hash) + 1,
              Len(LocalChain) + Len(last.tx.hash) + Len(TK)) = TK

(***************************************************************************)
(* C27: two successful sends in distinct transactions yield distinct       *)
(* attestations and distinct stored signatures: no two bridge_history rows *)
(* share a signature.                                                      *)
(***************************************************************************)
C27_SignaturesDistinct ==
    \A i, j \in DOMAIN bridge_history :
        i # j =>
            /\ bridge_history[i].transaction_id # bridge_history[j].transaction_id
            /\ B64Decode(bridge_history[i].signature).msg
                  # B64Decode(bridge_history[j].signature).msg
            /\ bridge_history[i].signature # bridge_history[j].signature

\* the same send was made in two transactions
C27_Witness ==
    /\ Len(bridge_history) = 2
    /\ [bridge_history[1] EXCEPT !.transaction_id = 0, !.height = 0, !.signature = NoSignature]
          = [bridge_history[2] EXCEPT !.transaction_id = 0, !.height = 0,
                                      !.signature = NoSignature]

(***************************************************************************)
(* C28: the keys BridgeProtocol.send emits, in order tic, amt, rch, rco,   *)
(* dst for (ticker, amount, remoteChain, remoteContract, receiver) under   *)
(* protocol bridge and operation send, are the keys the bridge processor   *)
(* reads with the same meaning: every value the SDK sets reaches the       *)
(* processor as the same field.                                            *)
(***************************************************************************)
C28_SdkKeysAreProcessorKeys ==
    [][Called =>
         \E a \in SdkSends :
            LET urn == ParsedURN(last'.call)
                params == send(a.ticker, a.amount, a.remoteChain, a.remoteContract, a.receiver)
                row == bridge_history'[Len(bridge_history')]
            IN  /\ [i \in DOMAIN params |-> params[i][1]] = <<"tic", "amt", "rch", "rco", "dst">>
                /\ last'.call.parse = "ok" /\ last'.call.sender = a.sender
                /\ urn.ChainID = LocalChain /\ urn.Operation = "send"
                /\ KV(urn, "tic") = a.ticker
                /\ KV(urn, "amt") = NumberToString(a.amount)
                /\ KV(urn, "rch") = a.remoteChain
                /\ KV(urn, "rco") = a.remoteContract
                /\ KV(urn, "dst") = a.receiver
                /\ last'.ret = "nil" =>
                      /\ row.remote_chain_id = a.remoteChain
                      /\ row.remote_contract = a.remoteContract
                      /\ row.receiver = a.receiver
                      /\ row.sender = a.sender]_vars

\* an SDK send reached bridge_history with its remote chain, contract and receiver
C28_Witness ==
    /\ last.called /\ last.ret = "nil" /\ Len(bridge_history) > 0
    /\ bridge_history[Len(bridge_history)].remote_chain_id = <<"o", "1">>
    /\ bridge_history[Len(bridge_history)].remote_contract = <<"k", "a">>
    /\ bridge_history[Len(bridge_history)].receiver = <<"r", "y">>
    /\ bridge_history[Len(bridge_history)].sender = "B"

(***************************************************************************)
(* C29: getTokenListings called with where.depositor = D and               *)
(* where.currentBlock = b returns only live (not cancelled, not filled)    *)
(* listings of the token that are deposited, whose depositor_address is D  *)
(* and whose depositor_timedout_block is greater than b, whether or not    *)
(* where.seller is given.                                                  *)
(***************************************************************************)
C29_ListingsOfDepositor ==
    \A t \in DOMAIN token, D \in Traders, b \in Blocks,
       seller \in Traders \cup {Undefined}, eqUndefined \in EqUndefined :
        \A i \in getTokenListings(token[t].id,
                                  [seller |-> seller, depositor |-> D, currentBlock |-> b],
                                  eqUndefined) :
            LET l == ListingOf(marketplace_cft20_detail[i])
            IN  /\ marketplace_cft20_detail[i].token_id = token[t].id
                /\ ~l.is_cancelled /\ ~l.is_filled /\ l.is_deposited
                /\ l.depositor_address = D
                /\ l.depositor_timedout_block > b

(***************************************************************************)
(* C30: getReservedInscriptions(depositor, currentBlock, limit) reports a  *)
(* listing as reserved for the depositor at block b exactly when the       *)
(* listing is RESERVED by that depositor and a buy by that depositor at    *)
(* height b satisfies current_height <= depositor_timedout_block (up to    *)
(* the limit).  Here b is the height of the block being built, the one at  *)
(* which a buy sent now is processed.                                      *)
(***************************************************************************)
C30_ReservedMeansBuyable ==
    \A D \in Traders :
        \A i \in DOMAIN marketplace_inscription_detail :
            LET l == ListingOf(marketplace_inscription_detail[i])
            IN  (i \in getReservedInscriptions(D, CurrentHeight,
                                               Len(marketplace_inscription_detail)))
                  <=> (Reserved(l) /\ l.depositor_address = D /\ BuyInTime(l, CurrentHeight))

====
